---- MODULE Spec2Model ----
(***************************************************************************)
(* A model of crates/sui-proxy/src/peers.rs: the SuiNodeProvider allow     *)
(* list (nodes), its readers allowed()/get(), the refresh task spawned by  *)
(* poll_peer_list() and the pure function extract().                       *)
(***************************************************************************)
EXTENDS Integers, Sequences, FiniteSets, TLC

(***************************************************************************)
(* Bounds of the model.                                                    *)
(***************************************************************************)
\* longest active_validators list the full node reports
MaxValidators == 2
\* model time runs from 0 to MaxTime
MaxTime == 4
\* concurrent callers of allowed()/get()
NumReaders == 1
\* how many times the surrounding process may call poll_peer_list in SpecMulti
MaxCalls == 2

Tasks == 1..MaxCalls

(***************************************************************************)
(* Byte strings and Ed25519PublicKey::from_bytes.                          *)
(***************************************************************************)
\* length in bytes of an ed25519 public key
ED25519_PUBLIC_KEY_LENGTH == 32

\* the byte vector of n bytes whose first byte is i
KeyBytes(i, n) == [j \in 1..n |-> IF j = 1 THEN i ELSE (7 * j + i) % 256]

Ok(v) == [ok |-> TRUE, val |-> v]
Err == [ok |-> FALSE]

\* faulty variant: from_bytes that accepts a vector one byte short
from_bytes_short(bytes) ==
    IF Len(bytes) >= ED25519_PUBLIC_KEY_LENGTH - 1 THEN Ok(bytes) ELSE Err

\* Ed25519PublicKey::from_bytes: the key is the raw bytes, accepted only at
\* the exact key length
from_bytes(bytes) ==
    IF Len(bytes) = ED25519_PUBLIC_KEY_LENGTH THEN Ok(bytes) ELSE Err

(***************************************************************************)
(* Multiaddr: the text form "/ip4/127.0.0.1/tcp/10000" is held as the      *)
(* sequence of its parts between '/' (the part before the first '/'        *)
(* included); the parsed form is a sequence of protocol components.        *)
(***************************************************************************)
ProtocolsWithArg == {"ip4", "tcp", "udp"}
ProtocolsNoArg == {"quic", "http"}

RECURSIVE from_str_parts(_)
\* Protocol::from_str_parts applied until the parts are used up
from_str_parts(parts) ==
    IF Len(parts) = 0 THEN Ok(<<>>)
    ELSE IF parts[1] \in ProtocolsNoArg
    THEN LET rest == from_str_parts(Tail(parts))
         IN  IF rest.ok THEN Ok(<<[proto |-> parts[1], arg |-> ""]>> \o rest.val)
             ELSE Err
    ELSE IF parts[1] \in ProtocolsWithArg /\ Len(parts) >= 2 /\ parts[2] # ""
    THEN LET rest == from_str_parts(SubSeq(parts, 3, Len(parts)))
         IN  IF rest.ok THEN Ok(<<[proto |-> parts[1], arg |-> parts[2]]>> \o rest.val)
             ELSE Err
    ELSE Err

\* faulty variant: try_from that takes any text as an address
try_from_lenient(text) ==
    LET r == from_str_parts(IF Len(text) > 0 THEN Tail(text) ELSE <<>>)
    IN  IF r.ok THEN r ELSE Ok(<<>>)

\* Multiaddr::try_from(String): the text must start with '/'
try_from(text) ==
    IF Len(text) = 0 \/ text[1] # "" THEN Err
    ELSE from_str_parts(Tail(text))

\* format!("{p2p_address}"): the text form of a parsed address
RECURSIVE to_parts(_)
to_parts(addr) ==
    IF Len(addr) = 0 THEN <<>>
    ELSE (IF addr[1].proto \in ProtocolsWithArg
          THEN <<addr[1].proto, addr[1].arg>> ELSE <<addr[1].proto>>)
         \o to_parts(Tail(addr))

to_string(addr) == <<"">> \o to_parts(addr)

(***************************************************************************)
(* serde of SuiValidatorSummary in the {result: summary} envelope: the     *)
(* key bytes travel as Base64 text, name and address as JSON strings.      *)
(* A Base64 text is the sequence of its 6-bit values, Pad standing for '='.*)
(***************************************************************************)
Pad == 64

RECURSIVE Base64Encode(_)
Base64Encode(b) ==
    IF Len(b) = 0 THEN <<>>
    ELSE IF Len(b) = 1
    THEN <<b[1] \div 4, (b[1] % 4) * 16, Pad, Pad>>
    ELSE IF Len(b) = 2
    THEN <<b[1] \div 4, (b[1] % 4) * 16 + b[2] \div 16, (b[2] % 16) * 4, Pad>>
    ELSE <<b[1] \div 4, (b[1] % 4) * 16 + b[2] \div 16,
           (b[2] % 16) * 4 + b[3] \div 64, b[3] % 64>>
         \o Base64Encode(SubSeq(b, 4, Len(b)))

\* faulty variant: a decoder that loses the bytes of a padded last group
RECURSIVE Base64DecodeUnpadded(_)
Base64DecodeUnpadded(t) ==
    IF Len(t) = 0 THEN Ok(<<>>)
    ELSE IF Len(t) < 4 \/ t[1] = Pad \/ t[2] = Pad THEN Err
    ELSE IF t[3] = Pad \/ t[4] = Pad
    THEN IF Len(t) = 4 THEN Ok(<<>>) ELSE Err
    ELSE LET rest == Base64DecodeUnpadded(SubSeq(t, 5, Len(t)))
         IN  IF rest.ok
             THEN Ok(<<t[1] * 4 + t[2] \div 16, (t[2] % 16) * 16 + t[3] \div 4,
                       (t[3] % 4) * 64 + t[4]>> \o rest.val)
             ELSE Err

RECURSIVE Base64Decode(_)
Base64Decode(t) ==
    IF Len(t) = 0 THEN Ok(<<>>)
    ELSE IF Len(t) < 4 \/ t[1] = Pad \/ t[2] = Pad THEN Err
    ELSE IF t[3] = Pad
    THEN IF Len(t) = 4 /\ t[4] = Pad /\ t[2] % 16 = 0
         THEN Ok(<<t[1] * 4 + t[2] \div 16>>) ELSE Err
    ELSE IF t[4] = Pad
    THEN IF Len(t) = 4 /\ t[3] % 4 = 0
         THEN Ok(<<t[1] * 4 + t[2] \div 16, (t[2] % 16) * 16 + t[3] \div 4>>)
         ELSE Err
    ELSE LET rest == Base64Decode(SubSeq(t, 5, Len(t)))
         IN  IF rest.ok
             THEN Ok(<<t[1] * 4 + t[2] \div 16, (t[2] % 16) * 16 + t[3] \div 4,
                       (t[3] % 4) * 64 + t[4]>> \o rest.val)
             ELSE Err

\* Serialize for SuiValidatorSummary (the fields the proxy reads)
SerializeValidator(vm) ==
    [name |-> vm.name,
     network_pubkey_bytes |-> Base64Encode(vm.network_pubkey_bytes),
     p2p_address |-> vm.p2p_address]

\* serde_json::to_string(&ResponseBody { result }): the body of a response
to_json(summary) ==
    [json |-> TRUE,
     fields |-> {"result"},
     result |-> [active_validators |->
                   [i \in 1..Len(summary.active_validators) |->
                      SerializeValidator(summary.active_validators[i])]]]

\* a body that is no JSON at all, and a JSON-RPC error object without "result"
GarbageBody == [json |-> FALSE, fields |-> {}, result |-> [active_validators |-> <<>>]]
ErrorBody == [json |-> TRUE, fields |-> {"error"}, result |-> [active_validators |-> <<>>]]

\* Deserialize for the summary under "result": every key text must be Base64
decode_result(raw) ==
    LET vs == raw.result.active_validators
    IN  IF \E i \in 1..Len(vs) : ~Base64Decode(vs[i].network_pubkey_bytes).ok
        THEN Err
        ELSE Ok([active_validators |->
                   [i \in 1..Len(vs) |->
                      [name |-> vs[i].name,
                       network_pubkey_bytes |->
                          Base64Decode(vs[i].network_pubkey_bytes).val,
                       p2p_address |-> vs[i].p2p_address]]])

\* faulty variant: a decoder that takes a JSON body without "result" as an
\* empty summary
from_slice_default(raw) ==
    IF ~raw.json THEN Err
    ELSE IF "result" \notin raw.fields THEN Ok([active_validators |-> <<>>])
    ELSE decode_result(raw)

\* serde_json::from_slice::<ResponseBody>(&raw), then body.result
from_slice(raw) ==
    IF ~raw.json \/ "result" \notin raw.fields THEN Err
    ELSE decode_result(raw)

(***************************************************************************)
(* The validator records the full node may report.                         *)
(***************************************************************************)
LocalTcp == <<[proto |-> "ip4", arg |-> "127.0.0.1"], [proto |-> "tcp", arg |-> "10000"]>>
RemoteUdp == <<[proto |-> "ip4", arg |-> "10.0.0.2"], [proto |-> "udp", arg |-> "8080"]>>

ValidatorIds == 1..5

\* the address a validator listens on
AddressOf(i) == IF i \in {1, 4} THEN LocalTcp ELSE RemoteUdp

\* 1 and 2 are well formed; 3 repeats the key of 1 under another name and
\* address; 4 has a key one byte short; 5 has a good key and the address "empty"
Validator(i) ==
    [name |-> CASE i = 1 -> "val-1" [] i = 2 -> "val-2" [] i = 3 -> "val-3"
                [] i = 4 -> "val-4" [] OTHER -> "val-5",
     network_pubkey_bytes |->
         CASE i = 3 -> KeyBytes(1, ED25519_PUBLIC_KEY_LENGTH)
           [] i = 4 -> KeyBytes(4, ED25519_PUBLIC_KEY_LENGTH - 1)
           [] OTHER -> KeyBytes(i, ED25519_PUBLIC_KEY_LENGTH),
     p2p_address |->
         IF i = 5 THEN <<"empty">> ELSE to_string(AddressOf(i))]

\* sequences of at most n elements of S
RECURSIVE SeqsUpTo(_, _)
SeqsUpTo(S, n) ==
    IF n = 0 THEN {<<>>}
    ELSE LET shorter == SeqsUpTo(S, n - 1)
         IN  shorter \cup {Append(q, x) : q \in {r \in shorter : Len(r) = n - 1}, x \in S}

\* the SuiSystemStateSummary listing the validators ids, in order
SummaryOf(ids) == [active_validators |-> [i \in 1..Len(ids) |-> Validator(ids[i])]]

\* every key callers may ask about: the keys of the records above and one
\* key no record carries
Keys == {KeyBytes(i, ED25519_PUBLIC_KEY_LENGTH) : i \in {1, 2, 5, 9}}

(***************************************************************************)
(* extract                                                                 *)
(***************************************************************************)
\* faulty variant: the peer is given the Base64 text of the record's key
\* bytes instead of the decoded key it is stored under
filter_raw_key(vm) ==
    LET k == from_bytes(vm.network_pubkey_bytes)
    IN  IF k.ok
        THEN LET a == try_from(vm.p2p_address)
             IN  IF a.ok
                 THEN Ok(<<k.val, [name |-> vm.name, p2p_address |-> a.val,
                                   public_key |-> Base64Encode(vm.network_pubkey_bytes)]>>)
                 ELSE Err
        ELSE Err

\* the closure given to filter_map: Some((public_key, SuiPeer)) or None
filter(vm) ==
    LET k == from_bytes(vm.network_pubkey_bytes)
    IN  IF k.ok
        THEN LET a == try_from(vm.p2p_address)
             IN  IF a.ok
                 THEN Ok(<<k.val, [name |-> vm.name, p2p_address |-> a.val,
                                   public_key |-> k.val]>>)
                 ELSE Err
        ELSE Err

RECURSIVE map_while(_)
\* faulty variant: the iteration ends at the first record that fails to decode
map_while(vs) ==
    IF Len(vs) = 0 THEN <<>>
    ELSE IF filter(vs[1]).ok THEN <<filter(vs[1]).val>> \o map_while(Tail(vs))
         ELSE <<>>

RECURSIVE filter_map(_)
\* Iterator::filter_map: the values of the records the closure keeps, in order
filter_map(vs) ==
    IF Len(vs) = 0 THEN <<>>
    ELSE (IF filter(vs[1]).ok THEN <<filter(vs[1]).val>> ELSE <<>>)
         \o filter_map(Tail(vs))

\* extract: the (key, peer) pairs of the records that decode, in order
extract(summary) == filter_map(summary.active_validators)

(***************************************************************************)
(* HashMap<Ed25519PublicKey, SuiPeer>                                      *)
(***************************************************************************)
EmptyMap == [k \in {} |-> k]

\* faulty variant: an entry already under the key is kept
insert_or_keep(m, k, v) == [x \in DOMAIN m \cup {k} |-> IF x \in DOMAIN m THEN m[x] ELSE v]

\* HashMap::insert: the value replaces the one already under the key
insert(m, k, v) == [x \in DOMAIN m \cup {k} |-> IF x = k THEN v ELSE m[x]]

contains_key(m, k) == k \in DOMAIN m

RECURSIVE extend(_, _)
\* HashMap::extend: insert every pair, in order
extend(m, pairs) ==
    IF Len(pairs) = 0 THEN m
    ELSE extend(insert(m, pairs[1][1], pairs[1][2]), Tail(pairs))

(***************************************************************************)
(* The state: the shared allow list behind its RwLock, the refresh tasks   *)
(* spawned by poll_peer_list, the callers of allowed()/get(), the clock.   *)
(***************************************************************************)
VARIABLES
    nodes,      \* SuiNodeProvider.nodes: the HashMap behind the RwLock
    lock,       \* the RwLock: the tasks holding the write guard, the number of read guards
    pc,         \* where each refresh task stands
    fetched,    \* per task: the summary get_validators returned (the lazy iterator's source)
    pos,        \* per task: how many records the iterator has consumed
    now,        \* the clock
    deadline,   \* per task: the deadline of its interval's next tick
    calls,      \* how many more times the process calls poll_peer_list
    committee,  \* the validator records the full node serves
    sent,       \* history: the validators of the summary the full node sent in the cycle
    atTick,     \* history: per task, nodes when its cycle started
    answer,     \* history: per task, what the transport handed back in its last cycle
    installed,  \* history: nodes when the last write guard was dropped
    last,       \* history: the snapshot of the most recent successful cycle
    lastTick,   \* history: per task, when its last tick fired and that tick's deadline
    started,    \* history: per task, cycles started
    history,    \* history: per task, how each of its finished cycles ended
    endedAt,    \* history: per task, when its last finished cycle ended
    respStatus  \* history: per task, the HTTP status of its cycle's response (0: none)

vars == <<nodes, lock, pc, fetched, pos, now, deadline, calls, committee, sent,
          atTick, answer, installed, last, lastTick, started, history, endedAt,
          respStatus>>

\* rpc_poll_interval, in clock units
rpc_poll_interval == 2

NoSummary == [active_validators |-> <<>>]
Some(v) == [some |-> TRUE, val |-> v]
None == [some |-> FALSE, val |-> EmptyMap]

\* SuiNodeProvider::new, before any poll_peer_list
InitWith(n, served) ==
    /\ nodes = EmptyMap
    /\ lock = [writer |-> {}, readers |-> 0]
    /\ pc = [t \in Tasks |-> "NotSpawned"]
    /\ fetched = [t \in Tasks |-> NoSummary]
    /\ pos = [t \in Tasks |-> 0]
    /\ now = 0
    /\ deadline = [t \in Tasks |-> 0]
    /\ calls = n
    /\ committee = served
    /\ sent = [t \in Tasks |-> <<>>]
    /\ atTick = [t \in Tasks |-> EmptyMap]
    /\ answer = [t \in Tasks |-> "none"]
    /\ installed = EmptyMap
    /\ last = None
    /\ lastTick = [t \in Tasks |-> [at |-> 0, timeout |-> 0, prevEnd |-> 0]]
    /\ started = [t \in Tasks |-> 0]
    /\ history = [t \in Tasks |-> <<>>]
    /\ endedAt = [t \in Tasks |-> 0]
    /\ respStatus = [t \in Tasks |-> 0]

(***************************************************************************)
(* Readers: allowed() and get() take a read guard for one map operation.   *)
(***************************************************************************)
\* allowed: nodes.read().unwrap().contains_key(key)
allowed(key) == contains_key(nodes, key)

\* faulty variant: get that hands back the entry without its name
get_nameless(key) ==
    IF key \in DOMAIN nodes
    THEN Some([name |-> "", p2p_address |-> nodes[key].p2p_address,
               public_key |-> nodes[key].public_key])
    ELSE None

\* get: a copy of the entry, field by field, or None
get(key) ==
    IF key \in DOMAIN nodes
    THEN Some([name |-> nodes[key].name,
               p2p_address |-> nodes[key].p2p_address,
               public_key |-> nodes[key].public_key])
    ELSE None

\* faulty variant: a reader that does not wait for the writer
ReadAvailableUnguarded == TRUE

\* RwLock::read returns once no write guard is held
ReadAvailable == lock.writer = {}

\* faulty variant: a writer that does not wait for the other writer
WriteAvailableUnguarded == lock.readers = 0

\* RwLock::write returns once no guard is held
WriteAvailable == lock.writer = {} /\ lock.readers = 0

\* a caller of allowed() or get() obtains its read guard
ReadLock ==
    /\ lock.readers < NumReaders
    /\ ReadAvailable
    /\ lock' = [lock EXCEPT !.readers = @ + 1]
    /\ UNCHANGED <<nodes, pc, fetched, pos, now, deadline, calls, committee, sent,
                   atTick, answer, installed, last, lastTick, started, history, endedAt,
                   respStatus>>

\* the call returns and its read guard is dropped
ReadUnlock ==
    /\ lock.readers > 0
    /\ lock' = [lock EXCEPT !.readers = @ - 1]
    /\ UNCHANGED <<nodes, pc, fetched, pos, now, deadline, calls, committee, sent,
                   atTick, answer, installed, last, lastTick, started, history, endedAt,
                   respStatus>>

(***************************************************************************)
(* get_validators: one POST, the body decoded as {result: summary}.        *)
(***************************************************************************)
\* what the transport hands back: whether send() and bytes() succeeded, the
\* HTTP status, the raw body
Response(status, raw) == [sent |-> TRUE, status |-> status, readable |-> TRUE, raw |-> raw]
SendFailed == [sent |-> FALSE, status |-> 0, readable |-> FALSE, raw |-> GarbageBody]
BodyFailed == [sent |-> TRUE, status |-> 200, readable |-> FALSE, raw |-> GarbageBody]

Statuses == {200, 500}

\* a summary whose key text is not Base64
MalformedBody ==
    [json |-> TRUE, fields |-> {"result"},
     result |-> [active_validators |->
                   <<[name |-> "val-1", network_pubkey_bytes |-> <<1, 2, 3>>,
                      p2p_address |-> to_string(LocalTcp)]>>]]

FailingResponses ==
    {SendFailed, BodyFailed}
        \cup {Response(st, b) : st \in Statuses, b \in {GarbageBody, ErrorBody, MalformedBody}}

\* faulty variant: an unreadable or undecodable body taken as an empty summary
get_validators_or_default(resp) ==
    IF ~resp.sent THEN Err
    ELSE IF ~resp.readable \/ ~from_slice(resp.raw).ok THEN Ok([active_validators |-> <<>>])
    ELSE from_slice(resp.raw)

\* faulty variant: a summary from which no peer can be extracted is an error
get_validators_nonempty(resp) ==
    IF ~resp.sent THEN Err
    ELSE IF ~resp.readable THEN Err
    ELSE IF from_slice(resp.raw).ok /\ Len(extract(from_slice(resp.raw).val)) = 0 THEN Err
    ELSE from_slice(resp.raw)

\* get_validators, given what the transport hands back: Ok(summary) or Err
get_validators(resp) ==
    IF ~resp.sent THEN Err
    ELSE IF ~resp.readable THEN Err
    ELSE from_slice(resp.raw)

(***************************************************************************)
(* The interval: tokio::time::interval with MissedTickBehavior::Skip.      *)
(***************************************************************************)
\* faulty variant: the default behaviour, Burst, which keeps every missed tick
next_timeout_burst(timeout, at) == timeout + rpc_poll_interval

\* the deadline set when a tick fires at time at: one period after the
\* deadline that fired, or, when that deadline was missed, the next multiple
\* of the period after at
next_timeout(timeout, at) ==
    IF at > timeout
    THEN at + rpc_poll_interval - ((at - timeout) % rpc_poll_interval)
    ELSE timeout + rpc_poll_interval

(***************************************************************************)
(* poll_peer_list and the steps of the task it spawns.                     *)
(***************************************************************************)
\* poll_peer_list: spawn a task on a clone of nodes; its interval's first
\* tick is due at once
poll_peer_list(t) ==
    /\ calls > 0
    /\ pc[t] = "NotSpawned"
    /\ \A u \in Tasks : u < t => pc[u] # "NotSpawned"
    /\ calls' = calls - 1
    /\ pc' = [pc EXCEPT ![t] = "Idle"]
    /\ deadline' = [deadline EXCEPT ![t] = now]
    /\ UNCHANGED <<nodes, lock, fetched, pos, now, committee, sent, atTick, answer,
                   installed, last, lastTick, started, history, endedAt,
                   respStatus>>

\* interval.tick().await returns: a cycle starts
Tick(t) ==
    /\ pc[t] = "Idle"
    /\ now >= deadline[t]
    /\ deadline' = [deadline EXCEPT ![t] = next_timeout(deadline[t], now)]
    /\ pc' = [pc EXCEPT ![t] = "Fetching"]
    /\ sent' = [sent EXCEPT ![t] = <<>>]
    /\ atTick' = [atTick EXCEPT ![t] = nodes]
    /\ answer' = [answer EXCEPT ![t] = "none"]
    /\ respStatus' = [respStatus EXCEPT ![t] = 0]
    /\ lastTick' = [lastTick EXCEPT ![t] = [at |-> now, timeout |-> deadline[t],
                                          prevEnd |-> endedAt[t]]]
    /\ started' = [started EXCEPT ![t] = @ + 1]
    /\ UNCHANGED <<nodes, lock, fetched, pos, now, calls, committee, installed, last,
                   history, endedAt>>

\* faulty variant: the loop is left on an error
after_error_break == "Stopped"

\* Err(error) => error!(..): the match arm ends and the loop goes back to
\* interval.tick()
after_error == "Idle"

\* get_validators(..).await returns resp's result; ids are the validators of
\* the summary the full node sent, if it sent one (kind says which)
Receive(t, resp, ids, kind) ==
    /\ pc[t] = "Fetching"
    /\ answer' = [answer EXCEPT ![t] = kind]
    /\ respStatus' = [respStatus EXCEPT ![t] = resp.status]
    /\ sent' = [sent EXCEPT ![t] = ids]
    /\ last' = IF kind = "summary"
               THEN Some(extend(EmptyMap, extract(SummaryOf(ids))))
               ELSE last
    /\ LET r == get_validators(resp)
       IN  IF r.ok
           THEN \* Ok(summary): peers = extract(summary), not yet iterated
                /\ pc' = [pc EXCEPT ![t] = "WaitLock"]
                /\ fetched' = [fetched EXCEPT ![t] = r.val]
                /\ pos' = [pos EXCEPT ![t] = 0]
                /\ UNCHANGED <<history, endedAt>>
           ELSE \* Err(error): logged, back to the tick
                /\ pc' = [pc EXCEPT ![t] = after_error]
                /\ history' = [history EXCEPT ![t] = Append(@, "err")]
                /\ endedAt' = [endedAt EXCEPT ![t] = now]
                /\ UNCHANGED <<fetched, pos>>
    /\ UNCHANGED <<nodes, lock, now, deadline, calls, committee, atTick, installed,
                   lastTick, started>>

\* the full node answers with a summary of its committee
FetchSummary(t) ==
    /\ pc[t] = "Fetching"
    /\ \E ids \in SeqsUpTo(committee, MaxValidators), st \in Statuses :
        Receive(t, Response(st, to_json(SummaryOf(ids))), ids, "summary")

\* the request fails, or the answer is no summary
FetchFailure(t) ==
    /\ pc[t] = "Fetching"
    /\ \E resp \in FailingResponses : Receive(t, resp, <<>>, "failure")

\* let mut allow = nodes.write().unwrap()
WriteLock(t) ==
    /\ pc[t] = "WaitLock"
    /\ WriteAvailable
    /\ lock' = [lock EXCEPT !.writer = @ \cup {t}]
    /\ pc' = [pc EXCEPT ![t] = "Locked"]
    /\ UNCHANGED <<nodes, fetched, pos, now, deadline, calls, committee, sent, atTick,
                   answer, installed, last, lastTick, started, history, endedAt,
                   respStatus>>

\* faulty variant: the refill without the clear
cleared_kept(m) == m

\* allow.clear()
cleared(m) == EmptyMap

Clear(t) ==
    /\ pc[t] = "Locked"
    /\ nodes' = cleared(nodes)
    /\ pc' = [pc EXCEPT ![t] = "Extending"]
    /\ UNCHANGED <<lock, fetched, pos, now, deadline, calls, committee, sent, atTick,
                   answer, installed, last, lastTick, started, history, endedAt,
                   respStatus>>

\* allow.extend(peers), one record of the lazy iterator at a time: the
\* record is decoded here, under the write guard, and inserted if it is Some
ExtendStep(t) ==
    /\ pc[t] = "Extending"
    /\ pos[t] < Len(fetched[t].active_validators)
    /\ LET vm == fetched[t].active_validators[pos[t] + 1]
       IN  nodes' = extend(nodes, extract([active_validators |-> <<vm>>]))
    /\ pos' = [pos EXCEPT ![t] = @ + 1]
    /\ UNCHANGED <<lock, pc, fetched, now, deadline, calls, committee, sent, atTick,
                   answer, installed, last, lastTick, started, history, endedAt,
                   respStatus>>

\* the iterator is exhausted: the count is logged and the write guard dropped
Unlock(t) ==
    /\ pc[t] = "Extending"
    /\ pos[t] = Len(fetched[t].active_validators)
    /\ lock' = [lock EXCEPT !.writer = @ \ {t}]
    /\ pc' = [pc EXCEPT ![t] = "Idle"]
    /\ installed' = nodes
    /\ history' = [history EXCEPT ![t] = Append(@, "ok")]
    /\ endedAt' = [endedAt EXCEPT ![t] = now]
    /\ fetched' = [fetched EXCEPT ![t] = NoSummary]
    /\ pos' = [pos EXCEPT ![t] = 0]
    /\ UNCHANGED <<nodes, now, deadline, calls, committee, sent, atTick, answer, last,
                   lastTick, started, respStatus>>

\* the clock moves on
Advance ==
    /\ now < MaxTime
    /\ now' = now + 1
    /\ UNCHANGED <<nodes, lock, pc, fetched, pos, deadline, calls, committee, sent,
                   atTick, answer, installed, last, lastTick, started, history, endedAt,
                   respStatus>>

\* every call of poll_peer_list has been made, no cycle is in progress and
\* no tick is due
Quiet ==
    /\ calls = 0
    /\ \A t \in Tasks : pc[t] = "NotSpawned" \/ (pc[t] = "Idle" /\ now < deadline[t])

TaskStep(t) ==
    \/ poll_peer_list(t)
    \/ Tick(t)
    \/ FetchSummary(t)
    \/ FetchFailure(t)
    \/ WriteLock(t)
    \/ Clear(t)
    \/ ExtendStep(t)
    \/ Unlock(t)

\* one call of poll_peer_list, made at time 0; the data of a cycle does not
\* depend on how long the cycle takes, so here the clock moves between cycles
\* only and every tick is taken when it is due
Init == InitWith(1, ValidatorIds)

Next ==
    \/ \E t \in Tasks : TaskStep(t)
    \/ ReadLock
    \/ ReadUnlock
    \/ Quiet /\ Advance

Spec == Init /\ [][Next]_vars

\* one call of poll_peer_list; cycles take time and may overrun their deadlines
InitTimer == InitWith(1, {1, 2})

NextTimer ==
    \/ \E t \in Tasks : TaskStep(t)
    \/ ReadLock
    \/ ReadUnlock
    \/ Advance

SpecTimer == InitTimer /\ [][NextTimer]_vars

\* poll_peer_list called MaxCalls times on the same provider; the clock
\* stands still, so every task runs the cycle of its first tick
InitMulti == InitWith(MaxCalls, {1})

NextMulti ==
    \/ \E t \in Tasks : TaskStep(t)
    \/ ReadLock
    \/ ReadUnlock

SpecMulti == InitMulti /\ [][NextMulti]_vars

(***************************************************************************)
(* The properties.                                                         *)
(***************************************************************************)
KeysOf(pairs) == {pairs[i][1] : i \in 1..Len(pairs)}

\* the snapshot of the summary the full node sent in task t's cycle
SnapshotOf(t) == extract(SummaryOf(sent[t]))

\* task t's last cycle received a summary and has finished installing it
Installed(t) == pc[t] = "Idle" /\ answer[t] = "summary"

\* task t's last cycle failed to fetch and is over
Failed(t) == pc[t] = "Idle" /\ answer[t] = "failure"

\* C1: after a refresh cycle whose fetch succeeded and which installed
\* snapshot S, allowed(k) is true for every key of S and false for every
\* other key, whatever the allow list held before the cycle.
C1_AllowedIsSnapshot ==
    \A t \in Tasks :
        Installed(t) =>
            LET snapshot == KeysOf(SnapshotOf(t))
            IN  \A k \in Keys \cup DOMAIN nodes \cup DOMAIN atTick[t] :
                    allowed(k) <=> k \in snapshot

\* a cycle that installed a non-empty snapshot over an allow list holding a
\* key the snapshot lacks
C1_Witness ==
    \E t \in Tasks :
        /\ Installed(t)
        /\ KeysOf(SnapshotOf(t)) # {}
        /\ DOMAIN atTick[t] \ KeysOf(SnapshotOf(t)) # {}

\* C2: a refresh cycle whose fetch fails goes back to Idle without writing
\* the allow list: allowed(k) and get(k) answer after it as they did before it.
C2_FailedCycleKeepsAnswers ==
    \A t \in Tasks :
        Failed(t) =>
            /\ nodes = atTick[t]
            /\ \A k \in Keys :
                /\ allowed(k) <=> contains_key(atTick[t], k)
                /\ get(k).some <=> contains_key(atTick[t], k)
                /\ get(k).some => get(k).val = atTick[t][k]

\* a failed cycle over a non-empty allow list
C2_Witness ==
    \E t \in Tasks : Failed(t) /\ atTick[t] # EmptyMap /\ Len(history[t]) >= 2

\* C3: whenever a caller of allowed()/get() holds its read guard, the map it
\* reads is the complete allow list of the last finished install (or the
\* initial empty one): never the cleared or partly refilled map.
C3_ReadersSeeWholeSnapshots ==
    lock.readers > 0 => nodes = installed

\* a reader holds its guard while a cycle waits to replace a non-empty
\* allow list by a different snapshot
C3_Witness ==
    \E t \in Tasks :
        /\ lock.readers > 0
        /\ pc[t] = "WaitLock"
        /\ nodes # EmptyMap
        /\ extend(EmptyMap, extract(fetched[t])) # nodes

\* C4: whenever the task is Idle, the allow list is empty if no cycle has
\* succeeded yet and otherwise is exactly the snapshot of the most recent
\* successful cycle.
C4_IdleHoldsLatestSnapshot ==
    \A t \in Tasks :
        pc[t] = "Idle" => nodes = (IF last.some THEN last.val ELSE EmptyMap)

\* install {A, B}, fail, install {B}: A is no longer allowed, B still is
C4_Witness ==
    \E t \in Tasks :
        /\ pc[t] = "Idle"
        /\ history[t] = <<"ok", "err", "ok">>
        /\ DOMAIN atTick[t] = {KeyBytes(1, ED25519_PUBLIC_KEY_LENGTH),
                               KeyBytes(2, ED25519_PUBLIC_KEY_LENGTH)}
        /\ ~allowed(KeyBytes(1, ED25519_PUBLIC_KEY_LENGTH))
        /\ allowed(KeyBytes(2, ED25519_PUBLIC_KEY_LENGTH))

\* what the records say, read off the table of Validator
GoodKey(i) == i # 4
GoodAddress(i) == i # 5
KeyOf(i) == Validator(i).network_pubkey_bytes

\* the pair extract owes for a well-formed record
ExpectedPair(i) ==
    <<KeyOf(i), [name |-> Validator(i).name, p2p_address |-> AddressOf(i),
                 public_key |-> KeyOf(i)]>>

Remove(q, j) == SubSeq(q, 1, j - 1) \o SubSeq(q, j + 1, Len(q))

AllGood(ids) == \A i \in 1..Len(ids) : GoodKey(ids[i]) /\ GoodAddress(ids[i])

DistinctKeys(ids) ==
    \A i, j \in 1..Len(ids) : i # j => KeyOf(ids[i]) # KeyOf(ids[j])

\* C5: for a summary whose n records all have decodable keys, pairwise
\* distinct, and parseable addresses, extract yields exactly n pairs, one per
\* record, also after the summary went through the {result: summary}
\* envelope (to_json at the full node, from_slice in get_validators).
C5_AllValidAllExtracted ==
    \A t \in Tasks :
        (pc[t] = "WaitLock" /\ AllGood(sent[t]) /\ DistinctKeys(sent[t])) =>
            /\ Len(extract(fetched[t])) = Len(sent[t])
            /\ Len(extract(SummaryOf(sent[t]))) = Len(sent[t])
            /\ \A i \in 1..Len(sent[t]) :
                /\ extract(fetched[t])[i] = ExpectedPair(sent[t][i])
                /\ extract(SummaryOf(sent[t]))[i] = ExpectedPair(sent[t][i])

\* a fetched summary of two well-formed records with distinct keys
C5_Witness ==
    \E t \in Tasks :
        pc[t] = "WaitLock" /\ Len(sent[t]) = 2 /\ AllGood(sent[t]) /\ DistinctKeys(sent[t])

\* exactly the record at j has undecodable key bytes; the others are well formed
OneBadKey(ids, j) ==
    /\ j \in 1..Len(ids)
    /\ ~GoodKey(ids[j])
    /\ AllGood(Remove(ids, j))

\* C6: when exactly one record of a summary has key bytes that fail to
\* decode, extract yields exactly the pairs of the other records, wherever
\* the bad record stands; the cycle is not aborted, and once installed the
\* other keys are allowed and the bad record has no entry.
C6_BadKeyDroppedAlone ==
    \A t \in Tasks : \A j \in 1..MaxValidators + 1 :
        (Installed(t) /\ OneBadKey(sent[t], j)) =>
            LET others == Remove(sent[t], j)
            IN  /\ SnapshotOf(t) = [i \in 1..Len(others) |-> ExpectedPair(others[i])]
                /\ history[t][Len(history[t])] = "ok"
                /\ DOMAIN nodes = {KeyOf(others[i]) : i \in 1..Len(others)}
                /\ \A i \in 1..Len(others) : allowed(KeyOf(others[i]))
                /\ \A k \in DOMAIN nodes : Len(k) = ED25519_PUBLIC_KEY_LENGTH

\* a summary with a well-formed record after one with 31 key bytes has been
\* installed: one entry
C6_Witness ==
    \E t \in Tasks :
        /\ Installed(t)
        /\ Len(sent[t]) >= 2
        /\ OneBadKey(sent[t], 1)
        /\ Cardinality(DOMAIN nodes) = Len(sent[t]) - 1

\* exactly the record at j has an address that does not parse (its key is
\* good); the others are well formed
OneBadAddress(ids, j) ==
    /\ j \in 1..Len(ids)
    /\ ~GoodAddress(ids[j])
    /\ GoodKey(ids[j])
    /\ AllGood(Remove(ids, j))

\* C7: when exactly one record of a summary has an address that fails to
\* parse, extract yields exactly the pairs of the other records; the record
\* is dropped although its key decodes, so that key is not allowed once the
\* snapshot is installed.
C7_BadAddressDropped ==
    \A t \in Tasks : \A j \in 1..MaxValidators + 1 :
        (Installed(t) /\ OneBadAddress(sent[t], j)) =>
            LET others == Remove(sent[t], j)
            IN  /\ SnapshotOf(t) = [i \in 1..Len(others) |-> ExpectedPair(others[i])]
                /\ from_bytes(KeyOf(sent[t][j])).ok
                /\ ~allowed(KeyOf(sent[t][j]))
                /\ DOMAIN nodes = {KeyOf(others[i]) : i \in 1..Len(others)}

\* a summary with a well-formed record before one with the address "empty"
\* has been installed: one entry
C7_Witness ==
    \E t \in Tasks :
        /\ Installed(t)
        /\ Len(sent[t]) >= 2
        /\ OneBadAddress(sent[t], Len(sent[t]))
        /\ Cardinality(DOMAIN nodes) = Len(sent[t]) - 1

\* the pair at i is the last of the snapshot with its key
LastOfKey(pairs, i) == \A j \in (i + 1)..Len(pairs) : pairs[j][1] # pairs[i][1]

\* C8 as stated: for every pair extract produced in an installed snapshot,
\* get(key) returns the pair's peer.
C8_EveryPairReadBack ==
    \A t \in Tasks :
        Installed(t) =>
            \A i \in 1..Len(SnapshotOf(t)) :
                get(SnapshotOf(t)[i][1]) = Some(SnapshotOf(t)[i][2])

\* C8 (amended): for every pair extract produced that is the last one with
\* its key, once the snapshot is installed get(key) returns Some(record) with
\* name, p2p_address and public_key equal to the pair's peer; and get(k)
\* returns None for every key k not in the allow list.
C8_LastPairReadBack ==
    \A t \in Tasks :
        Installed(t) =>
            LET pairs == SnapshotOf(t)
            IN  /\ \A i \in 1..Len(pairs) :
                    LastOfKey(pairs, i) =>
                        /\ get(pairs[i][1]).some
                        /\ get(pairs[i][1]).val.name = pairs[i][2].name
                        /\ get(pairs[i][1]).val.p2p_address = pairs[i][2].p2p_address
                        /\ get(pairs[i][1]).val.public_key = pairs[i][2].public_key
                /\ \A k \in Keys : k \notin DOMAIN nodes => get(k) = None

\* an installed snapshot with two different pairs under one key
C8_Witness ==
    \E t \in Tasks :
        /\ Installed(t)
        /\ \E i, j \in 1..Len(SnapshotOf(t)) :
            /\ i < j
            /\ SnapshotOf(t)[i][1] = SnapshotOf(t)[j][1]
            /\ SnapshotOf(t)[i][2] # SnapshotOf(t)[j][2]
            /\ LastOfKey(SnapshotOf(t), j)
            /\ get(SnapshotOf(t)[j][1]) = Some(SnapshotOf(t)[j][2])

\* task t is between a tick and the end of the cycle the tick started
InCycle(t) == pc[t] \notin {"NotSpawned", "Idle"}

C10_MissedTicksSkipped ==
    \A t \in Tasks :
        started[t] > 0 =>
            /\ deadline[t] > lastTick[t].at
            /\ deadline[t] <= lastTick[t].at + rpc_poll_interval

\* a cycle ran past two deadlines, the one cycle that followed is over, and
\* the task waits for a deadline still ahead
C10_Witness ==
    \E t \in Tasks :
        /\ started[t] >= 2
        /\ Len(history[t]) = started[t]
        /\ lastTick[t].prevEnd >= lastTick[t].timeout + rpc_poll_interval
        /\ pc[t] = "Idle"
        /\ now < deadline[t]

\* StatusCode::is_success: the 2xx statuses
is_success(st) == st >= 200 /\ st < 300

\* C11: a fetch whose response carries a non-success HTTP status is a fetch
\* failure whatever its body holds: the cycle that issued it goes back to Idle
\* as a failed cycle and installs nothing, leaving the allow list as the tick
\* found it.
C11_NonSuccessStatusFails ==
    \A t \in Tasks :
        (respStatus[t] # 0 /\ ~is_success(respStatus[t])) =>
            /\ pc[t] = "Idle"
            /\ history[t] # <<>>
            /\ history[t][Len(history[t])] = "err"
            /\ nodes = atTick[t]

\* a summary that came with status 500 was installed over a different allow
\* list
C11_Witness ==
    \E t \in Tasks :
        /\ respStatus[t] = 500
        /\ Installed(t)
        /\ nodes # atTick[t]
        /\ nodes # EmptyMap

\* the records of task t's fetched summary that the iterator returned by
\* extract has not yet reached: their key and address are still to be decoded
Undecoded(t) == Len(fetched[t].active_validators) - pos[t]

\* C12: the refresh task holds the write guard of the allow list only for the
\* replacement of the snapshot, not while validator records are decoded and
\* filtered: whenever a task holds the write guard, every record of its
\* summary has already been decoded, so a caller of allowed() waits for the
\* install alone.
C12_DecodedBeforeWriteGuard ==
    \A t \in Tasks : t \in lock.writer => Undecoded(t) = 0

\* a task holds the write guard over a cleared and partly refilled allow
\* list, with a record of its summary still to decode
C12_Witness ==
    \E t \in Tasks :
        /\ lock.writer = {t}
        /\ pc[t] = "Extending"
        /\ pos[t] > 0
        /\ Undecoded(t) > 0
        /\ ~ReadAvailable

\* the steps of the spawned task that wait for nothing but the task's own
\* turn: the tick once it is due, and the install once the fetch has returned
OwnStep(t) ==
    \/ Tick(t)
    \/ WriteLock(t)
    \/ Clear(t)
    \/ ExtendStep(t)
    \/ Unlock(t)

\* Spec with the scheduling the runtime gives: a spawned task that can take a
\* step of its own, time and again, takes it (readers that come and go do not
\* keep a waiting writer out for ever), a reader gives its guard back, and
\* time passes. Nothing is assumed of the full node: the client is built
\* without a timeout, so neither an answer nor an error is bound to arrive.
SpecLive ==
    /\ Init
    /\ [][Next]_vars
    /\ \A t \in Tasks : SF_vars(OwnStep(t))
    /\ WF_vars(ReadUnlock)
    /\ WF_vars(Quiet /\ Advance)

\* C13: a full node that never answers cannot stall the refresh: every cycle
\* that enters Fetching eventually returns to Idle.
C13_FetchingReturnsToIdle ==
    \A t \in Tasks : (pc[t] = "Fetching") ~> (pc[t] = "Idle")

\* a cycle after the first waits for the full node's answer, with an allow
\* list already installed
C13_Witness ==
    \E t \in Tasks :
        /\ pc[t] = "Fetching"
        /\ started[t] >= 2
        /\ respStatus[t] = 0
        /\ nodes # EmptyMap

\* the records of ids whose key and address both decode, in order
Decodable(ids) == SelectSeq(ids, LAMBDA i : GoodKey(i) /\ GoodAddress(i))

\* C14 as stated: the output of extract has at most one entry per decoded
\* key, for every input, and is never longer than the input.
C14_OneEntryPerKey ==
    \A t \in Tasks :
        pc[t] = "WaitLock" =>
            LET out == extract(fetched[t])
            IN  /\ \A i, j \in 1..Len(out) : i # j => out[i][1] # out[j][1]
                /\ Len(out) <= Len(fetched[t].active_validators)

\* C14 (amended): the output of extract has exactly one entry per input
\* record that decodes, in input order, so it is never longer than the input;
\* extract does not deduplicate: records that share a key each yield an
\* entry, the output has one entry per key only when the decodable records
\* have distinct keys, and it is the map built from the output that holds one
\* entry per key.
C14_OneEntryPerRecord ==
    \A t \in Tasks :
        pc[t] = "WaitLock" =>
            LET out == extract(fetched[t])
                good == Decodable(sent[t])
            IN  /\ Len(out) <= Len(fetched[t].active_validators)
                /\ out = [i \in 1..Len(good) |-> ExpectedPair(good[i])]
                /\ DistinctKeys(good) =>
                       \A i, j \in 1..Len(out) : i # j => out[i][1] # out[j][1]
                /\ DOMAIN extend(EmptyMap, out) = KeysOf(out)
                /\ Cardinality(DOMAIN extend(EmptyMap, out)) <= Len(out)

\* a fetched summary of two decodable records with one key: two entries in
\* the output of extract, one key
C14_Witness ==
    \E t \in Tasks :
        /\ pc[t] = "WaitLock"
        /\ Len(extract(fetched[t])) = 2
        /\ Cardinality(KeysOf(extract(fetched[t]))) = 1

\* task t has started cycles and the last one is over
CycleOver(t) == started[t] > 0 /\ Len(history[t]) = started[t]

\* the cycles of task t that ended in a fetch failure
Failures(t) == Cardinality({i \in 1..Len(history[t]) : history[t][i] = "err"})

\* C15: the refresh loop has no terminal state: however many cycles failed,
\* once a cycle is over the task is back in Idle, its next tick is due no
\* later than one period after the last one (no backoff), a due tick starts
\* another cycle, and a fetch that succeeds after failures is installed.
C15_NoTerminalState ==
    \A t \in Tasks :
        /\ CycleOver(t) =>
            /\ pc[t] = "Idle"
            /\ deadline[t] <= lastTick[t].at + rpc_poll_interval
            /\ now >= deadline[t] => ENABLED Tick(t)
        /\ (Installed(t) /\ Failures(t) > 0) =>
            /\ history[t][Len(history[t])] = "ok"
            /\ DOMAIN nodes = KeysOf(SnapshotOf(t))
            /\ \A k \in KeysOf(SnapshotOf(t)) : allowed(k)

\* two failed cycles in a row, then a cycle that installed a non-empty
\* snapshot
C15_Witness ==
    \E t \in Tasks :
        /\ history[t] = <<"err", "err", "ok">>
        /\ Installed(t)
        /\ nodes # EmptyMap

\* C17: a successful fetch is installed even when extract yields no pair
\* (no record, or no record that decodes): the cycle ends as a success and
\* replaces whatever the allow list held by the empty one, so no key is
\* allowed after it.
C17_EmptySnapshotInstalled ==
    \A t \in Tasks :
        (Installed(t) /\ Len(SnapshotOf(t)) = 0) =>
            /\ history[t][Len(history[t])] = "ok"
            /\ nodes = EmptyMap
            /\ \A k \in Keys \cup DOMAIN atTick[t] : ~allowed(k) /\ ~get(k).some

\* a summary whose records all fail to decode was installed over a non-empty
\* allow list
C17_Witness ==
    \E t \in Tasks :
        /\ Installed(t)
        /\ Len(sent[t]) > 0
        /\ Len(SnapshotOf(t)) = 0
        /\ atTick[t] # EmptyMap
        /\ nodes = EmptyMap

\* the record at j is the last decodable record of ids with its key
LastWithKey(ids, j) ==
    /\ j \in 1..Len(ids)
    /\ GoodKey(ids[j]) /\ GoodAddress(ids[j])
    /\ \A i \in (j + 1)..Len(ids) :
        (GoodKey(ids[i]) /\ GoodAddress(ids[i])) => KeyOf(ids[i]) # KeyOf(ids[j])

\* C18: when several decodable records of one summary carry the same key,
\* the installed allow list holds one entry for that key (as many entries as
\* the decodable records have distinct keys), and get(key) returns the name
\* and address of the last such record of the summary.
C18_LastDuplicateWins ==
    \A t \in Tasks :
        Installed(t) =>
            /\ Cardinality(DOMAIN nodes)
                   = Cardinality({KeyOf(Decodable(sent[t])[i]) :
                                      i \in 1..Len(Decodable(sent[t]))})
            /\ \A j \in 1..Len(sent[t]) :
                LastWithKey(sent[t], j) =>
                    /\ get(KeyOf(sent[t][j])).some
                    /\ get(KeyOf(sent[t][j])).val.name = Validator(sent[t][j]).name
                    /\ get(KeyOf(sent[t][j])).val.p2p_address = AddressOf(sent[t][j])

\* an installed summary of two decodable records with one key and different
\* names and addresses: one entry, which reads back as the second record
C18_Witness ==
    \E t \in Tasks :
        /\ Installed(t)
        /\ Len(sent[t]) >= 2
        /\ AllGood(sent[t])
        /\ KeyOf(sent[t][1]) = KeyOf(sent[t][2])
        /\ Validator(sent[t][1]).name # Validator(sent[t][2]).name
        /\ AddressOf(sent[t][1]) # AddressOf(sent[t][2])
        /\ LastWithKey(sent[t], 2)
        /\ Cardinality(DOMAIN nodes) = 1
        /\ get(KeyOf(sent[t][2])).val.name = Validator(sent[t][2]).name

\* C19: in every reachable state each entry of the allow list is stored
\* under the key that equals its record's public_key, and for every key k
\* allowed(k) holds exactly when get(k) returns Some (a record whose
\* public_key is k).
C19_KeyedByPublicKey ==
    /\ \A k \in DOMAIN nodes : nodes[k].public_key = k
    /\ \A k \in Keys \cup DOMAIN nodes :
        /\ allowed(k) <=> get(k).some
        /\ get(k).some => get(k).val.public_key = k

\* a caller holds a read guard on an allow list of two entries while some
\* key is not in it
C19_Witness ==
    /\ lock.readers > 0
    /\ Cardinality(DOMAIN nodes) = 2
    /\ \E k \in Keys : ~allowed(k) /\ ~get(k).some
    /\ \E k \in Keys : allowed(k) /\ get(k).val.public_key = k

====
